---- MODULE Spec2Model ----
(***************************************************************************)
(* The voting-precinct pipeline of santa_cruz_precincts.py: explode_xref   *)
(* (read loop, insert loop), join_by_field, update_precincts and dissolve, *)
(* in the order run_tools calls them.                                      *)
(*                                                                         *)
(* Text values are sequences of one-character strings, so that splitting a *)
(* member text into tokens is computed and not assumed.  None (a null      *)
(* field) is the one-element sequence <<"None">>, which is no text of the  *)
(* model because "None" is not a character.                                *)
(*                                                                         *)
(* Two more scripts follow the pipeline, each under a specification of its *)
(* own: copy_field of the public-works santa_cruz_precincts.py, and the    *)
(* file-reconciliation loop of santa_cruz_sanitation.py.                   *)
(***************************************************************************)
EXTENDS Integers, Sequences, FiniteSets, TLC

VARIABLES
    xref,            \* the cross-reference table: rows [VotePrec, Precincts]
    precincts,       \* the precincts feature class: rows [Precinct, VotePrec]
    xref_explode,    \* the exploded table: rows [Precinct, VotePrec]
    precincts_1to1,  \* the dictionary of explode_xref, in insertion order
    search_cur,      \* number of cross-reference rows the SearchCursor has yielded
    insert_cur,      \* number of dictionary items the insert loop has passed
    update_cur,      \* number of precinct rows the UpdateCursor has passed
    update_count,    \* update_count of update_precincts
    voting_precincts,\* the dissolve output: one unit per dissolve-field value
    exit_code,       \* the exit status of the process, 0 while it runs
    raised,          \* the exception that ended the run, NoException otherwise
    update_runs,     \* number of calls of update_precincts that have returned
    pc,              \* the statement run_tools is at
    \* copy_field
    from_fc,         \* the source feature class: rows [key, val]
    to_fc,           \* the target feature class: rows [key, val]
    from_values_dict,\* the dictionary of copy_field, in insertion order
    from_cur,        \* number of source rows the SearchCursor has yielded
    upd_cur,         \* number of target rows the UpdateCursor has passed
    copy_pc,         \* the statement copy_field is at
    \* santa_cruz_sanitation.py
    old_dir,         \* the files of the old directory
    new_dir,         \* the files of the new directory, NoDir while it is missing
    save_dir,        \* the files of the save directory, NoDir while it is missing
    fc,              \* the FileName values of the index feature class, in cursor order
    cursor,          \* number of index records the SearchCursor has yielded
    moved,           \* the file names of the "moved" lines printed, in order
    files_not_found, \* files_not_found, as file names
    duplicate_file_refs,
    step             \* the statement the script is at

copy_field_vars == <<from_fc, to_fc, from_values_dict, from_cur, upd_cur, copy_pc>>

sanitation_vars == <<old_dir, new_dir, save_dir, fc, cursor, moved,
                     files_not_found, duplicate_file_refs, step>>

\* The variables of the scripts other than the voting-precinct pipeline.
other_scripts == <<copy_field_vars, sanitation_vars>>

vars == <<xref, precincts, xref_explode, precincts_1to1, search_cur, insert_cur,
          update_cur, update_count, voting_precincts, exit_code, raised,
          update_runs, pc, other_scripts>>

----------------------------------------------------------------------------
(* Bounds of the model. *)

\* most rows in a cross-reference table
MaxRows == 2
\* most characters in all member texts of a cross-reference table together
MaxChars == 3
\* most rows in the source feature class of copy_field
MaxFrom == 2
\* most rows in the target feature class of copy_field
MaxTo == 2
\* most records in the index feature class of the sanitation script
MaxIndex == 3
\* most records in the precincts feature class
MaxMembers == 2

----------------------------------------------------------------------------
(* Values. *)

None == <<"None">>

NoException == [type |-> "none", at |-> "none"]

Exception(type, at) == [type |-> type, at |-> at]

Whitespace == {" "}
Chars == {"1", " "}

IsSpace(c) == c \in Whitespace

Range(s) == {s[i] : i \in 1..Len(s)}

Texts(n) == UNION {[1..k -> Chars] : k \in 0..n}

\* str.split() with no separator: the maximal runs of non-whitespace
\* characters, in order; leading, trailing and repeated whitespace yield no
\* empty token.
RECURSIVE SplitFrom(_, _, _)
SplitFrom(s, cur, acc) ==
    IF s = <<>>
    THEN IF cur = <<>> THEN acc ELSE Append(acc, cur)
    ELSE IF IsSpace(Head(s))
         THEN SplitFrom(Tail(s), <<>>, IF cur = <<>> THEN acc ELSE Append(acc, cur))
         ELSE SplitFrom(Tail(s), Append(cur, Head(s)), acc)

\* str.split(" ") instead: every single blank separates, so blanks at the
\* ends or next to each other, and the empty text, yield empty tokens.
RECURSIVE SplitOnBlankFrom(_, _, _)
SplitOnBlankFrom(s, cur, acc) ==
    IF s = <<>>
    THEN Append(acc, cur)
    ELSE IF IsSpace(Head(s))
         THEN SplitOnBlankFrom(Tail(s), <<>>, Append(acc, cur))
         ELSE SplitOnBlankFrom(Tail(s), Append(cur, Head(s)), acc)

split_on_blank(s) == SplitOnBlankFrom(s, <<>>, <<>>)

split(s) == SplitFrom(s, <<>>, <<>>)

\* regular_precincts_str.split() raises AttributeError on None.
split_never_raises(s) == FALSE

split_raises(s) == s = None

\* set(...): the distinct tokens.  Its iteration order is not fixed
\* (string hashing is randomised per process): every order is possible.
Orders(S) ==
    {f \in [1..Cardinality(S) -> S] : \A i, j \in 1..Cardinality(S) : f[i] = f[j] => i = j}

----------------------------------------------------------------------------
(* The dictionary precincts_1to1: a sequence of items [key, val] with      *)
(* distinct keys, in insertion order.                                      *)

DictKeys(d) == {d[i].key : i \in 1..Len(d)}

DictHas(d, k) == k \in DictKeys(d)

DictGet(d, k) == d[CHOOSE i \in 1..Len(d) : d[i].key = k].val

\* A list of pairs instead of a dictionary: every assignment adds an item.
DictAppend(d, k, v) == Append(d, [key |-> k, val |-> v])

\* dict.setdefault instead of assignment: the first value of a key stays.
DictSetDefault(d, k, v) ==
    IF DictHas(d, k) THEN d ELSE Append(d, [key |-> k, val |-> v])

\* d[k] = v: a new key goes to the end, an old key keeps its place and
\* takes the new value.
DictSet(d, k, v) ==
    IF DictHas(d, k)
    THEN [i \in 1..Len(d) |-> IF d[i].key = k THEN [key |-> k, val |-> v] ELSE d[i]]
    ELSE Append(d, [key |-> k, val |-> v])

\* A loop that breaks after its first iteration: only the token the set
\* yields first is assigned.
AssignFirst(d, order, v) ==
    IF order = <<>> THEN d ELSE DictSet(d, Head(order), v)

\* for regular_precinct in regular_precincts_set:
\*     precincts_1to1[regular_precinct] = voting_precinct
RECURSIVE AssignAll(_, _, _)
AssignAll(d, order, v) ==
    IF order = <<>> THEN d
    ELSE AssignAll(DictSet(d, Head(order), v), Tail(order), v)

----------------------------------------------------------------------------
(* Inputs: the tables load_table and load_shapefile bring into the         *)
(* workspace before explode_xref is called.                                *)

\* Voting precinct codes.  Each is also a possible regular precinct code:
\* both fields are free text.
GroupKeys == {<<"1">>, <<"1", "1">>}

\* Regular precinct codes of the precincts feature class; None is a record
\* without a code.
MemberKeys == {<<"1">>, <<"1", "1">>, None}

TextLen(t) == IF t = None THEN 0 ELSE Len(t)

RECURSIVE TotalChars(_)
TotalChars(x) ==
    IF x = <<>> THEN 0 ELSE TextLen(Head(x).Precincts) + TotalChars(Tail(x))

XrefRows == [VotePrec : GroupKeys, Precincts : Texts(MaxChars) \cup {None}]

XrefTables ==
    {x \in UNION {[1..n -> XrefRows] : n \in 0..MaxRows} : TotalChars(x) <= MaxChars}

\* Before the join the feature class has no VotePrec value.
Member(k) == [Precinct |-> k, VotePrec |-> None]

MemberTables ==
    UNION {[1..n -> {Member(k) : k \in MemberKeys}] : n \in 0..MaxMembers}

P1 == <<"P", "1">>
P2 == <<"P", "2">>
P3 == <<"P", "3">>
P4 == <<"P", "4">>
V1 == <<"V", "1">>
V2 == <<"V", "2">>

XRow(v, t) == [VotePrec |-> v, Precincts |-> t]

\* Inputs written out in full: two regular precincts of one voting
\* precinct and a third of another; one regular precinct listed by two
\* voting precincts; a repeated token in a row whose voting precinct has
\* the code of one of its regular precincts; a row without a voting
\* precinct code.
Scenario1Xref == <<XRow(V1, P1 \o <<" ">> \o P2), XRow(V2, P3)>>
Scenario2Xref == <<XRow(V1, P1), XRow(V2, P1)>>
Scenario3Xref == <<XRow(P1, P1 \o <<" ">> \o P1 \o <<" ">> \o P2)>>
Scenario4Xref == <<XRow(None, P1)>>
ScenarioMembers == <<Member(P1), Member(P2), Member(P3), Member(P4)>>

ScenarioInputs ==
    {<<Scenario1Xref, ScenarioMembers>>,
     <<Scenario2Xref, ScenarioMembers>>,
     <<Scenario3Xref, ScenarioMembers>>,
     <<Scenario4Xref, ScenarioMembers>>}

Inputs == (XrefTables \X MemberTables) \cup ScenarioInputs

----------------------------------------------------------------------------
(* run_tools up to the call of explode_xref. *)

\* copy_field is not called.
CopyFieldNotRun ==
    /\ from_fc = <<>>
    /\ to_fc = <<>>
    /\ from_values_dict = <<>>
    /\ from_cur = 0
    /\ upd_cur = 0
    /\ copy_pc = "not_run"

\* santa_cruz_sanitation.py is not run.
SanitationNotRun ==
    /\ old_dir = {}
    /\ new_dir = {}
    /\ save_dir = {}
    /\ fc = <<>>
    /\ cursor = 0
    /\ moved = <<>>
    /\ files_not_found = <<>>
    /\ duplicate_file_refs = <<>>
    /\ step = "not_run"

Init ==
    /\ CopyFieldNotRun
    /\ SanitationNotRun
    /\ \E in \in Inputs : xref = in[1] /\ precincts = in[2]
    /\ xref_explode = <<>>
    /\ precincts_1to1 = <<>>
    /\ search_cur = 0
    /\ insert_cur = 0
    /\ update_cur = 0
    /\ update_count = 0
    /\ voting_precincts = {}
    /\ exit_code = 0
    /\ raised = NoException
    /\ update_runs = 0
    /\ pc = "explode_xref_read"

----------------------------------------------------------------------------
(* explode_xref: the read loop. *)

\* One iteration of "for voting_precinct, regular_precincts_str in
\* search_cur" whose split succeeds.
SearchCursorRow ==
    /\ pc = "explode_xref_read"
    /\ search_cur < Len(xref)
    /\ LET row == xref[search_cur + 1]
           voting_precinct == row.VotePrec
           regular_precincts_str == row.Precincts
       IN  /\ ~split_raises(regular_precincts_str)
           /\ \E order \in Orders(Range(split(regular_precincts_str))) :
                  precincts_1to1' = AssignAll(precincts_1to1, order, voting_precinct)
    /\ search_cur' = search_cur + 1
    /\ UNCHANGED <<other_scripts, raised, update_runs,
                   xref, precincts, xref_explode, insert_cur, update_cur,
                   update_count, voting_precincts, exit_code, pc>>

\* An iteration whose split raises: "except Exception" prints and exits 207.
SearchCursorRowRaises ==
    /\ pc = "explode_xref_read"
    /\ search_cur < Len(xref)
    /\ split_raises(xref[search_cur + 1].Precincts)
    /\ pc' = "exit"
    /\ exit_code' = 207
    /\ raised' = Exception("AttributeError", "explode_xref_read")
    /\ UNCHANGED <<other_scripts, update_runs,
                   xref, precincts, xref_explode, precincts_1to1, search_cur,
                   insert_cur, update_cur, update_count, voting_precincts>>

\* The cursor is exhausted: the "with" block ends, the insert loop begins.
SearchCursorEnd ==
    /\ pc = "explode_xref_read"
    /\ search_cur = Len(xref)
    /\ pc' = "explode_xref_insert"
    /\ UNCHANGED <<other_scripts, raised, update_runs,
                   xref, precincts, xref_explode, precincts_1to1, search_cur,
                   insert_cur, update_cur, update_count, voting_precincts, exit_code>>

----------------------------------------------------------------------------
(* explode_xref: the insert loop. *)

\* The second element of the inserted row:
\* precincts_1to1[voting_precinct], the dictionary looked up at the value.
InsertedVotePrec(d, regular_precinct, voting_precinct) == DictGet(d, voting_precinct)

\* The lookup raises KeyError when the value is no key of the dictionary.
InsertRaises(d, regular_precinct, voting_precinct) == ~DictHas(d, voting_precinct)

\* An InsertCursor opened on the cross-reference instead of the exploded
\* table: the row goes to xref.
InsertCursorRowIntoXref ==
    /\ pc = "explode_xref_insert"
    /\ insert_cur < Len(precincts_1to1)
    /\ LET item == precincts_1to1[insert_cur + 1]
       IN  /\ ~InsertRaises(precincts_1to1, item.key, item.val)
           /\ xref' = Append(xref,
                  [VotePrec |-> InsertedVotePrec(precincts_1to1, item.key, item.val),
                   Precincts |-> item.key])
    /\ insert_cur' = insert_cur + 1
    /\ UNCHANGED <<other_scripts, raised, update_runs,
                   precincts, xref_explode, precincts_1to1, search_cur, update_cur,
                   update_count, voting_precincts, exit_code, pc>>

\* One iteration of "for regular_precinct, voting_precinct in
\* precincts_1to1.items()" that inserts its row.
InsertCursorRow ==
    /\ pc = "explode_xref_insert"
    /\ insert_cur < Len(precincts_1to1)
    /\ LET item == precincts_1to1[insert_cur + 1]
       IN  /\ ~InsertRaises(precincts_1to1, item.key, item.val)
           /\ xref_explode' = Append(xref_explode,
                  [Precinct |-> item.key,
                   VotePrec |-> InsertedVotePrec(precincts_1to1, item.key, item.val)])
    /\ insert_cur' = insert_cur + 1
    /\ UNCHANGED <<other_scripts, raised, update_runs,
                   xref, precincts, precincts_1to1, search_cur, update_cur,
                   update_count, voting_precincts, exit_code, pc>>

\* An iteration whose lookup raises: "except Exception" prints and exits 208.
InsertCursorRowRaises ==
    /\ pc = "explode_xref_insert"
    /\ insert_cur < Len(precincts_1to1)
    /\ LET item == precincts_1to1[insert_cur + 1]
       IN  InsertRaises(precincts_1to1, item.key, item.val)
    /\ pc' = "exit"
    /\ exit_code' = 208
    /\ raised' = Exception("KeyError", "explode_xref_insert")
    /\ UNCHANGED <<other_scripts, update_runs,
                   xref, precincts, xref_explode, precincts_1to1, search_cur,
                   insert_cur, update_cur, update_count, voting_precincts>>

\* All items are inserted: explode_xref returns to run_tools.
ExplodeXrefReturn ==
    /\ pc = "explode_xref_insert"
    /\ insert_cur = Len(precincts_1to1)
    /\ pc' = "join_by_field"
    /\ UNCHANGED <<other_scripts, raised, update_runs,
                   xref, precincts, xref_explode, precincts_1to1, search_cur,
                   insert_cur, update_cur, update_count, voting_precincts, exit_code>>

----------------------------------------------------------------------------
(* join_by_field: arcpy.management.JoinField(precincts, "Precinct",        *)
(* xref_explode, "Precinct", ["VotePrec"]).                                *)

\* A join without its key condition: every row of the join table matches.
JoinMatchesAny(join_table, k) == 1..Len(join_table)

\* The rows of the join table whose join field equals the key; a null key
\* matches nothing.
JoinMatches(join_table, k) ==
    {j \in 1..Len(join_table) : k # None /\ join_table[j].Precinct = k}

\* The transferred value: that of the first matching row of the join
\* table, null when no row matches.
JoinedValue(join_table, k) ==
    IF JoinMatches(join_table, k) = {} THEN None
    ELSE LET j == CHOOSE m \in JoinMatches(join_table, k) :
                      \A n \in JoinMatches(join_table, k) : m <= n
         IN  join_table[j].VotePrec

\* A join that serves each row of the join table once: only the first
\* input record with a key receives the value.
JoinFieldOneToOne(in_data, join_table) ==
    [i \in 1..Len(in_data) |->
        [Precinct |-> in_data[i].Precinct,
         VotePrec |-> IF \E h \in 1..(i - 1) : in_data[h].Precinct = in_data[i].Precinct
                      THEN None
                      ELSE JoinedValue(join_table, in_data[i].Precinct)]]

\* An inner join: only the input records with a matching row stay.
JoinFieldInner(in_data, join_table) ==
    SelectSeq([i \in 1..Len(in_data) |->
                  [Precinct |-> in_data[i].Precinct,
                   VotePrec |-> JoinedValue(join_table, in_data[i].Precinct)]],
              LAMBDA r : JoinMatches(join_table, r.Precinct) # {})

\* The input table after the join: every record stays, with the
\* transferred field.
JoinField(in_data, join_table) ==
    [i \in 1..Len(in_data) |->
        [Precinct |-> in_data[i].Precinct,
         VotePrec |-> JoinedValue(join_table, in_data[i].Precinct)]]

join_by_field ==
    /\ pc = "join_by_field"
    /\ precincts' = JoinField(precincts, xref_explode)
    /\ pc' = "update_precincts"
    /\ UNCHANGED <<other_scripts, raised, update_runs,
                   xref, xref_explode, precincts_1to1, search_cur, insert_cur,
                   update_cur, update_count, voting_precincts, exit_code>>

----------------------------------------------------------------------------
(* update_precincts: the UpdateCursor with where_clause                    *)
(* '"VotePrec" is null'.                                                   *)

\* A cursor without the where clause, and a loop without the if: every
\* record after the position is yielded and written.
UpdateCursorAll == (update_cur + 1)..Len(precincts)

\* The records the cursor has still to yield: those after its position
\* that satisfy the where clause.
UpdateCursorRest ==
    {i \in (update_cur + 1)..Len(precincts) : precincts[i].VotePrec = None}

\* row[1] = None: the record is written back as it was read.
LeaveNull(row) == None

\* row[1] = precinct
FillValue(row) == row.Precinct

\* A loop that counts a row only when the value written differs from the
\* value read.
UpdateCursorRowCountsChanges ==
    /\ pc = "update_precincts"
    /\ UpdateCursorRest # {}
    /\ LET i == CHOOSE m \in UpdateCursorRest : \A n \in UpdateCursorRest : m <= n
       IN  /\ precincts' = [precincts EXCEPT ![i].VotePrec = FillValue(precincts[i])]
           /\ update_cur' = i
           /\ update_count' = IF FillValue(precincts[i]) # precincts[i].VotePrec
                              THEN update_count + 1 ELSE update_count
    /\ UNCHANGED <<other_scripts, raised, update_runs,
                   xref, xref_explode, precincts_1to1, search_cur, insert_cur,
                   voting_precincts, exit_code, pc>>

\* One iteration of "for row in update_cur": the yielded row has a null
\* VotePrec, so the if holds, the row is updated and counted.
UpdateCursorRow ==
    /\ pc = "update_precincts"
    /\ UpdateCursorRest # {}
    /\ LET i == CHOOSE m \in UpdateCursorRest : \A n \in UpdateCursorRest : m <= n
       IN  /\ precincts' = [precincts EXCEPT ![i].VotePrec = FillValue(precincts[i])]
           /\ update_cur' = i
    /\ update_count' = update_count + 1
    /\ UNCHANGED <<other_scripts, raised, update_runs,
                   xref, xref_explode, precincts_1to1, search_cur, insert_cur,
                   voting_precincts, exit_code, pc>>

\* A return from inside the loop: update_precincts returns wherever the
\* cursor stands.
UpdatePrecinctsReturnEarly ==
    /\ pc = "update_precincts"
    /\ update_runs' = update_runs + 1
    /\ pc' = "dissolve"
    /\ UNCHANGED <<other_scripts, raised,
                   xref, precincts, xref_explode, precincts_1to1, search_cur,
                   insert_cur, update_cur, update_count, voting_precincts, exit_code>>

\* The cursor is exhausted: the count is printed, update_precincts returns.
UpdatePrecinctsReturn ==
    /\ pc = "update_precincts"
    /\ UpdateCursorRest = {}
    /\ update_cur' = Len(precincts)
    /\ update_runs' = update_runs + 1
    /\ pc' = "dissolve"
    /\ UNCHANGED <<other_scripts, raised,
                   xref, precincts, xref_explode, precincts_1to1, search_cur,
                   insert_cur, update_count, voting_precincts, exit_code>>

----------------------------------------------------------------------------
(* dissolve: arcpy.analysis.PairwiseDissolve on "VotePrec": one output     *)
(* unit per value of the field, made of the records that hold it.          *)

Dissolved(in_features) ==
    {[VotePrec |-> v,
      parts |-> {i \in 1..Len(in_features) : in_features[i].VotePrec = v}] :
        v \in {in_features[i].VotePrec : i \in 1..Len(in_features)}}

dissolve ==
    /\ pc = "dissolve"
    /\ voting_precincts' = Dissolved(precincts)
    /\ pc' = "done"
    /\ UNCHANGED <<other_scripts, raised, update_runs,
                   xref, precincts, xref_explode, precincts_1to1, search_cur,
                   insert_cur, update_cur, update_count, exit_code>>

----------------------------------------------------------------------------

Next ==
    \/ SearchCursorRow
    \/ SearchCursorRowRaises
    \/ SearchCursorEnd
    \/ InsertCursorRow
    \/ InsertCursorRowRaises
    \/ ExplodeXrefReturn
    \/ join_by_field
    \/ UpdateCursorRow
    \/ UpdatePrecinctsReturn
    \/ dissolve

Spec == Init /\ [][Next]_vars

----------------------------------------------------------------------------
(* Vocabulary of the properties.  What a member text lists is stated here  *)
(* on the text itself, without split.                                      *)

\* p stands in text t as a whole token: a run without whitespace, bounded
\* on each side by whitespace or by an end of the text.
HasToken(t, p) ==
    /\ p # <<>>
    /\ \A n \in 1..Len(p) : ~IsSpace(p[n])
    /\ \E i \in 1..Len(t) :
          /\ i + Len(p) - 1 <= Len(t)
          /\ SubSeq(t, i, i + Len(p) - 1) = p
          /\ (i = 1 \/ IsSpace(t[i - 1]))
          /\ (i + Len(p) > Len(t) \/ IsSpace(t[i + Len(p)]))

ListedIn(t) ==
    {p \in {SubSeq(t, i, j) : i \in 1..Len(t), j \in 1..Len(t)} : HasToken(t, p)}

\* The rows of the cross-reference that list regular precinct p.
RowsListing(p) == {i \in 1..Len(xref) : HasToken(xref[i].Precincts, p)}

AllListed == UNION {ListedIn(xref[i].Precincts) : i \in 1..Len(xref)}

Blank(t) == t # None /\ \A i \in 1..Len(t) : IsSpace(t[i])

\* explode_xref has returned to run_tools.
ExplodeReturned == pc \in {"join_by_field", "update_precincts", "dissolve", "done"}

\* The read loop of explode_xref has run to its end.
ReadLoopFinished == pc # "explode_xref_read" /\ exit_code # 207

\* join_by_field has returned and update_precincts has not yet written.
JoinJustDone == pc = "update_precincts" /\ update_cur = 0

\* update_precincts has returned.
FillDone == pc \in {"dissolve", "done"}

\* Two member records carry the same regular precinct code.
HasDuplicateKey ==
    \E i, j \in 1..Len(precincts) :
        /\ i # j
        /\ precincts[i].Precinct # None
        /\ precincts[i].Precinct = precincts[j].Precinct

KeysNonNullUnique ==
    /\ \A i \in 1..Len(precincts) : precincts[i].Precinct # None
    /\ ~HasDuplicateKey

----------------------------------------------------------------------------
(* C1.  When explode_xref has returned, every row (p, v) of the exploded   *)
(* table comes from a cross-reference row whose VotePrec is v and whose    *)
(* _Precincts text lists p.                                                *)
C1_RowsComeFromXref ==
    ExplodeReturned =>
        \A n \in 1..Len(xref_explode) :
            \E i \in RowsListing(xref_explode[n].Precinct) :
                xref[i].VotePrec = xref_explode[n].VotePrec

(* C2.  The run on rows [("V1", "P1 P2"), ("V2", "P3")] and members        *)
(* P1..P4 ends with P1->V1, P2->V1, P3->V2, P4->P4 in the member dataset.  *)
C2_Scenario1Result ==
    (xref = Scenario1Xref /\ Len(precincts) = 4 /\ pc \in {"done", "exit"}) =>
        /\ pc = "done"
        /\ precincts = <<[Precinct |-> P1, VotePrec |-> V1],
                         [Precinct |-> P2, VotePrec |-> V1],
                         [Precinct |-> P3, VotePrec |-> V2],
                         [Precinct |-> P4, VotePrec |-> P4]>>

(* C3.  Totality: with non-null unique member keys, once join_by_field     *)
(* and update_precincts have completed (so when dissolve is invoked, and   *)
(* after), every member record has a non-null VotePrec.                    *)
C3_Totality ==
    (FillDone /\ KeysNonNullUnique) =>
        \A i \in 1..Len(precincts) : precincts[i].VotePrec # None

\* The fill has completed on a dataset of which one record took its value
\* from the join and another from the fallback.
C3_Witness ==
    /\ pc = "dissolve"
    /\ KeysNonNullUnique
    /\ update_count >= 1
    /\ \E i \in 1..Len(precincts) : JoinMatches(xref_explode, precincts[i].Precinct) # {}

(* C4.  Fallback: after update_precincts has run, every member record      *)
(* whose Precinct no cross-reference row lists has VotePrec = Precinct.    *)
C4_Fallback ==
    FillDone =>
        \A i \in 1..Len(precincts) :
            RowsListing(precincts[i].Precinct) = {} =>
                precincts[i].VotePrec = precincts[i].Precinct

\* The fill has completed; the cross-reference maps some precinct, and a
\* member record with another, unlisted, code holds its own code.
C4_Witness ==
    /\ FillDone
    /\ xref_explode # <<>>
    /\ \E i \in 1..Len(precincts) :
          /\ precincts[i].Precinct # None
          /\ RowsListing(precincts[i].Precinct) = {}
          /\ precincts[i].VotePrec = precincts[i].Precinct

(* C5.  Last write wins: when the read loop has finished, the keys of      *)
(* precincts_1to1 are the regular precincts the cross-reference lists,     *)
(* and each has the VotePrec of the last row, in cursor order, listing it. *)
C5_LastWriteWins ==
    ReadLoopFinished =>
        /\ DictKeys(precincts_1to1) = AllListed
        /\ \A k \in DictKeys(precincts_1to1) :
              \E i \in RowsListing(k) :
                  /\ \A j \in RowsListing(k) : j <= i
                  /\ DictGet(precincts_1to1, k) = xref[i].VotePrec

\* The read loop has finished on a cross-reference in which two rows with
\* different voting precincts list the same regular precinct.
C5_Witness ==
    /\ ReadLoopFinished
    /\ \E k \in AllListed : \E i, j \in RowsListing(k) :
          i < j /\ xref[i].VotePrec # xref[j].VotePrec

(* C6.  On well-formed rows (no null VotePrec, no null member text)        *)
(* explode_xref never exits the process, and on                            *)
(* [("V1", "P1"), ("V2", "P1")] it returns P1 -> V2.                       *)
C6_WellFormedNeverExits ==
    /\ (\A i \in 1..Len(xref) :
            xref[i].VotePrec # None /\ xref[i].Precincts # None) => pc # "exit"
    /\ (xref = Scenario2Xref /\ ExplodeReturned) =>
           xref_explode = <<[Precinct |-> P1, VotePrec |-> V2]>>

(* C7.  When explode_xref has returned, the exploded table has exactly one *)
(* row per distinct regular precinct listed anywhere in the                *)
(* cross-reference: no Precinct value in two rows, none missing, so        *)
(* "P1 P1 P2" gives two rows.                                              *)
C7_OneRowPerToken ==
    ExplodeReturned =>
        /\ \A m, n \in 1..Len(xref_explode) :
              xref_explode[m].Precinct = xref_explode[n].Precinct => m = n
        /\ {xref_explode[n].Precinct : n \in 1..Len(xref_explode)} = AllListed
        /\ (xref = Scenario3Xref => Len(xref_explode) = 2)

\* explode_xref has returned on the row with member text "P1 P1 P2".
C7_Witness ==
    /\ ExplodeReturned
    /\ xref = Scenario3Xref
    /\ Len(xref_explode) = 2

(* C8.  A row whose member text is empty or only whitespace leaves the     *)
(* mapping as it is: the iteration that reads it changes no item of        *)
(* precincts_1to1 and does not exit.                                       *)
C8_BlankRowNoEffect ==
    [][(/\ pc = "explode_xref_read"
        /\ search_cur < Len(xref)
        /\ Blank(xref[search_cur + 1].Precincts))
       => (/\ precincts_1to1' = precincts_1to1
           /\ search_cur' = search_cur + 1
           /\ pc' = "explode_xref_read"
           /\ exit_code' = 0)]_vars

\* The cursor has just passed a whitespace-only second row, with the
\* mapping of the first row in place.
C8_Witness ==
    /\ pc = "explode_xref_read"
    /\ search_cur = 2
    /\ Blank(xref[2].Precincts)
    /\ xref[2].Precincts # <<>>
    /\ precincts_1to1 # <<>>

(* C9.  With a null member text in any cross-reference row, the run never  *)
(* gets past the read loop: it is reading or has exited with 207, no row   *)
(* is in the exploded table and no member record has been written.         *)
C9_NullTextAborts ==
    (\E i \in 1..Len(xref) : xref[i].Precincts = None) =>
        /\ pc \in {"explode_xref_read", "exit"}
        /\ pc = "exit" => exit_code = 207
        /\ xref_explode = <<>>
        /\ insert_cur = 0
        /\ update_count = 0
        /\ \A i \in 1..Len(precincts) : precincts[i].VotePrec = None

\* The run has exited on a null member text in the second row, after the
\* first row had put an item in the mapping.
C9_Witness ==
    /\ pc = "exit"
    /\ exit_code = 207
    /\ search_cur = 1
    /\ precincts_1to1 # <<>>
    /\ precincts # <<>>

----------------------------------------------------------------------------
(* A caller that runs update_precincts once more on the feature class it   *)
(* has just filled, before the dissolve.  The call opens a new cursor and  *)
(* sets update_count = 0 again.                                            *)

UpdatePrecinctsAgain ==
    /\ pc = "dissolve"
    /\ update_runs = 1
    /\ pc' = "update_precincts"
    /\ update_cur' = 0
    /\ update_count' = 0
    /\ UNCHANGED <<other_scripts, raised, update_runs,
                   xref, precincts, xref_explode, precincts_1to1, search_cur,
                   insert_cur, voting_precincts, exit_code>>

NextFillTwice == Next \/ UpdatePrecinctsAgain

SpecFillTwice == Init /\ [][NextFillTwice]_vars

\* A step of the second run of update_precincts.
SecondFillStep == update_runs = 1 /\ pc = "update_precincts"

\* The step in which the second run returns.
SecondFillReturns == update_runs = 1 /\ update_runs' = 2

(* C12, as claimed.  A second run of update_precincts leaves every record  *)
(* as the first run left it, and reports 0 rows updated.                   *)
C12_SecondFillNoOp ==
    [][/\ SecondFillStep => precincts' = precincts
       /\ SecondFillReturns => update_count' = 0]_vars

(* C12, amended.  A second run of update_precincts leaves every record as  *)
(* the first run left it, and reports as many rows updated as there are    *)
(* records with a null Precinct: 0 when no member key is null.             *)
C12_SecondFillKeepsRecords ==
    [][/\ SecondFillStep => precincts' = precincts
       /\ SecondFillReturns =>
              update_count' =
                  Cardinality({i \in 1..Len(precincts) : precincts[i].Precinct = None})]_vars

\* The second run has returned with 0 rows updated on a dataset in which
\* the first run had filled a record.
C12_Witness ==
    /\ update_runs = 2
    /\ update_count = 0
    /\ \E i \in 1..Len(precincts) :
          /\ precincts[i].Precinct # None
          /\ RowsListing(precincts[i].Precinct) = {}
          /\ precincts[i].VotePrec = precincts[i].Precinct

----------------------------------------------------------------------------
(* C13.  Cardinality is preserved: no step of the pipeline, so neither     *)
(* join_by_field nor update_precincts, changes the number of member        *)
(* records or the Precinct of any of them.                                 *)
C13_CardinalityPreserved ==
    [][/\ Len(precincts') = Len(precincts)
       /\ \A i \in 1..Len(precincts) : precincts'[i].Precinct = precincts[i].Precinct]_vars

\* Join and fill have both run on a dataset of several records, of which
\* the join matched one and the fill patched another.
C13_Witness ==
    /\ FillDone
    /\ Len(precincts) >= 2
    /\ \E i, j \in 1..Len(precincts) :
          /\ JoinMatches(xref_explode, precincts[i].Precinct) # {}
          /\ JoinMatches(xref_explode, precincts[j].Precinct) = {}

----------------------------------------------------------------------------
\* The records update_precincts has still to fill: a null VotePrec that the
\* cursor has not passed, or that could take the record's Precinct.
PendingFill ==
    {i \in 1..Len(precincts) :
        /\ precincts[i].VotePrec = None
        /\ (i > update_cur \/ precincts[i].Precinct # None)}

(* C14.  Join, then fill, then dissolve: update_precincts has written or   *)
(* passed a record only when join_by_field has returned; while dissolve is *)
(* invoked, and after, no member record has a null VotePrec pending fill;  *)
(* and the output exists only when dissolve has run.                       *)
C14_JoinThenFillThenDissolve ==
    /\ (update_count > 0 \/ update_cur > 0) =>
           pc \in {"update_precincts", "dissolve", "done"}
    /\ pc \in {"dissolve", "done"} => (update_runs >= 1 /\ PendingFill = {})
    /\ voting_precincts # {} => pc = "done"

\* The run is done: the fill has patched a record after the join had
\* matched another, and the dissolve has made a unit of each.
C14_Witness ==
    /\ pc = "done"
    /\ update_count >= 1
    /\ Cardinality(voting_precincts) >= 2
    /\ \E i \in 1..Len(precincts) : JoinMatches(xref_explode, precincts[i].Precinct) # {}

----------------------------------------------------------------------------
(* Failures of the toolkit.  Every call into arcpy may raise:              *)
(* arcpy.ExecuteError, another exception with a message (the cursors raise *)
(* RuntimeError), or an exception without arguments.  Inside a try block   *)
(* the two except clauses of the function handle it; the statements after  *)
(* the try block (the GetCount of the closing report, the assertion on the *)
(* result) are under no handler, and run_tools has none.                   *)

ExceptionTypes == {"ExecuteError", "RuntimeError", "NoArgs"}

\* Both except clauses exit with the same status.
ExitStatusSame(tool_status, other_status, type) == tool_status

\* "except arcpy.ExecuteError" exits with the first status.  "except
\* Exception" prints e.args[0] and exits with the second; without
\* arguments e.args[0] raises IndexError inside the handler, which
\* propagates: traceback, exit status 1.
ExitStatus(tool_status, other_status, type) ==
    IF type = "ExecuteError" THEN tool_status
    ELSE IF type = "NoArgs" THEN 1
    ELSE other_status

\* The process ends with the status, all tables as they are.
Abort(type, at, status) ==
    /\ pc' = "exit"
    /\ exit_code' = status
    /\ raised' = Exception(type, at)
    /\ UNCHANGED <<other_scripts, update_runs, xref, precincts, xref_explode, precincts_1to1,
                   search_cur, insert_cur, update_cur, update_count, voting_precincts>>

\* The SearchCursor raises, at its creation or on a row.
SearchCursorRaises ==
    /\ pc = "explode_xref_read"
    /\ \E type \in ExceptionTypes :
           Abort(type, "explode_xref_read", ExitStatus(107, 207, type))

\* The InsertCursor raises, at its creation or on a row; the rows inserted
\* before stay in the table.
InsertCursorRaises ==
    /\ pc = "explode_xref_insert"
    /\ \E type \in ExceptionTypes :
           Abort(type, "explode_xref_insert", ExitStatus(108, 208, type))

\* The report after the insert loop raises: the exception leaves
\* explode_xref.
ExplodeXrefReportRaises ==
    /\ pc = "explode_xref_insert"
    /\ insert_cur = Len(precincts_1to1)
    /\ Abort("ExecuteError", "explode_xref_report", 1)

\* JoinField raises; the input table is as it was.
JoinFieldRaises ==
    /\ pc = "join_by_field"
    /\ \E type \in ExceptionTypes :
           Abort(type, "join_by_field", ExitStatus(105, 205, type))

\* The handlers print and do not exit: update_precincts returns with the
\* records filled so far.
UpdateCursorRaisesContinues ==
    /\ pc = "update_precincts"
    /\ \E type \in ExceptionTypes : raised' = Exception(type, "update_precincts")
    /\ update_runs' = update_runs + 1
    /\ pc' = "dissolve"
    /\ UNCHANGED <<other_scripts, xref, precincts, xref_explode, precincts_1to1, search_cur,
                   insert_cur, update_cur, update_count, voting_precincts, exit_code>>

\* The report after the join raises: the exception leaves join_by_field,
\* the table is joined.
JoinByFieldReportRaises ==
    /\ pc = "join_by_field"
    /\ precincts' = JoinField(precincts, xref_explode)
    /\ pc' = "exit"
    /\ exit_code' = 1
    /\ raised' = Exception("ExecuteError", "join_by_field_report")
    /\ UNCHANGED <<other_scripts, update_runs, xref, xref_explode, precincts_1to1, search_cur,
                   insert_cur, update_cur, update_count, voting_precincts>>

\* The UpdateCursor raises, at its creation or on a row; the records
\* updated before stay updated.
UpdateCursorRaises ==
    /\ pc = "update_precincts"
    /\ \E type \in ExceptionTypes :
           Abort(type, "update_precincts", ExitStatus(109, 209, type))

\* The report after the update loop raises: the exception leaves
\* update_precincts.
UpdatePrecinctsReportRaises ==
    /\ pc = "update_precincts"
    /\ UpdateCursorRest = {}
    /\ Abort("ExecuteError", "update_precincts_report", 1)

\* PairwiseDissolve raises; there is no output.
DissolveRaises ==
    /\ pc = "dissolve"
    /\ \E type \in ExceptionTypes :
           Abort(type, "dissolve", ExitStatus(106, 206, type))

\* The report after the dissolve raises: the exception leaves dissolve,
\* the output is written.
DissolveReportRaises ==
    /\ pc = "dissolve"
    /\ voting_precincts' = Dissolved(precincts)
    /\ pc' = "exit"
    /\ exit_code' = 1
    /\ raised' = Exception("ExecuteError", "dissolve_report")
    /\ UNCHANGED <<other_scripts, update_runs, xref, precincts, xref_explode, precincts_1to1,
                   search_cur, insert_cur, update_cur, update_count>>

NextFaults ==
    \/ Next
    \/ SearchCursorRaises
    \/ InsertCursorRaises
    \/ ExplodeXrefReportRaises
    \/ JoinFieldRaises
    \/ JoinByFieldReportRaises
    \/ UpdateCursorRaises
    \/ UpdatePrecinctsReportRaises
    \/ DissolveRaises
    \/ DissolveReportRaises

\* The runs with failures start from the cross-references that have fewer
\* rows than the largest.
InitFaults == Init /\ Len(xref) < MaxRows

SpecFaults == InitFaults /\ [][NextFaults]_vars

(* C15.  Once a stage has failed, nothing more executes: no step follows   *)
(* an exception, the step that raises ends the process, and the output is  *)
(* written only by a dissolve that no failure precedes, from a member      *)
(* dataset that update_precincts has returned from with no record pending. *)
C15_FailureAborts ==
    [][/\ raised # NoException => UNCHANGED vars
       /\ raised' # NoException => pc' = "exit" /\ exit_code' # 0
       /\ voting_precincts' # voting_precincts =>
              /\ raised = NoException
              /\ pc = "dissolve"
              /\ update_runs >= 1
              /\ PendingFill = {}
              /\ voting_precincts' = Dissolved(precincts)]_vars

\* The fill has failed on a toolkit error after it had patched one record
\* and before it reached another; there is no output.
C15_Witness ==
    /\ pc = "exit"
    /\ exit_code = 109
    /\ update_count >= 1
    /\ PendingFill # {}
    /\ voting_precincts = {}

\* The exception was raised in explode_xref or in update_precincts.
RaisedInExplodeOrFill ==
    raised.at \in {"explode_xref_read", "explode_xref_insert", "explode_xref_report",
                   "update_precincts", "update_precincts_report"}

\* The exception is a toolkit error.
ToolkitError == raised.type = "ExecuteError"

(* C19, as claimed.  Every failure inside explode_xref and                 *)
(* update_precincts ends the process with the status of its stage: 107 or  *)
(* 207 from the read loop, 108 or 208 from the insert loop, 109 or 209     *)
(* from the fill, the first for a toolkit error and the second for any     *)
(* other exception; none leaves the function.                              *)
C19_StageExitStatus ==
    RaisedInExplodeOrFill =>
        /\ pc = "exit"
        /\ raised.at \in {"explode_xref_read"} =>
               exit_code = IF ToolkitError THEN 107 ELSE 207
        /\ raised.at \in {"explode_xref_insert", "explode_xref_report"} =>
               exit_code = IF ToolkitError THEN 108 ELSE 208
        /\ raised.at \in {"update_precincts", "update_precincts_report"} =>
               exit_code = IF ToolkitError THEN 109 ELSE 209

(* C19, amended.  A toolkit error, or another exception that carries a     *)
(* message, raised inside a try block of explode_xref or update_precincts  *)
(* ends the process with the status of its stage: 107 or 207 from the read *)
(* loop, 108 or 208 from the insert loop, 109 or 209 from the fill.  An    *)
(* exception without arguments, and any exception raised after the try     *)
(* block, leaves the function and ends the process with status 1.          *)
C19_TryBlockExitStatus ==
    RaisedInExplodeOrFill =>
        /\ pc = "exit"
        /\ (raised.at = "explode_xref_read" /\ raised.type # "NoArgs") =>
               exit_code = IF ToolkitError THEN 107 ELSE 207
        /\ (raised.at = "explode_xref_insert" /\ raised.type # "NoArgs") =>
               exit_code = IF ToolkitError THEN 108 ELSE 208
        /\ (raised.at = "update_precincts" /\ raised.type # "NoArgs") =>
               exit_code = IF ToolkitError THEN 109 ELSE 209
        /\ (raised.at \in {"explode_xref_report", "update_precincts_report"}
               \/ raised.type = "NoArgs") => exit_code = 1

\* The insert loop has failed on an exception that is no toolkit error
\* after it had inserted a row, and the process has exited with 208.
C19_Witness ==
    /\ pc = "exit"
    /\ raised = Exception("RuntimeError", "explode_xref_insert")
    /\ exit_code = 208
    /\ xref_explode # <<>>

----------------------------------------------------------------------------
(* Determinism of the mapping. *)

\* The member-key/group-key pairs of a dictionary.
DictPairs(d) == {<<d[i].key, d[i].val>> : i \in 1..Len(d)}

\* The dictionary of the run over the first n rows in which every token
\* set iterates in the order of the text.
RECURSIVE InTextOrder(_)
InTextOrder(n) ==
    IF n = 0 THEN <<>>
    ELSE AssignAll(InTextOrder(n - 1), split(xref[n].Precincts), xref[n].VotePrec)

(* C16.  Mapping determinism: whatever order the token set of each row     *)
(* iterates in, the pairs of precincts_1to1 after the rows read so far are *)
(* those of the run that iterates every set in the order of the text; two  *)
(* runs over the same rows in the same row order hold the same pairs.      *)
C16_MappingDeterminism ==
    DictPairs(precincts_1to1) = DictPairs(InTextOrder(search_cur))

\* The read loop has finished on a cross-reference whose first row lists
\* two regular precincts, and the set has yielded the second one first.
C16_Witness ==
    /\ ReadLoopFinished
    /\ Len(xref) >= 1
    /\ Len(precincts_1to1) >= 2
    /\ LET tokens == split(xref[1].Precincts)
       IN  /\ Len(tokens) >= 2
           /\ tokens[1] # tokens[2]
           /\ precincts_1to1[1].key = tokens[2]

----------------------------------------------------------------------------
(* Frame conditions. *)

\* Control is inside explode_xref.
InExplodeXref == pc \in {"explode_xref_read", "explode_xref_insert"}

(* C17.  explode_xref does not touch the member dataset or the             *)
(* cross-reference table: every step taken inside it, a failing one        *)
(* included, leaves xref, precincts and the output as they were, and what  *)
(* it does to the exploded table is to append rows.                        *)
C17_ExplodeXrefFrame ==
    [][InExplodeXref =>
          /\ xref' = xref
          /\ precincts' = precincts
          /\ voting_precincts' = voting_precincts
          /\ Len(xref_explode') >= Len(xref_explode)
          /\ SubSeq(xref_explode', 1, Len(xref_explode)) = xref_explode]_vars

\* explode_xref has returned after inserting a row, with a member dataset
\* that has records.
C17_Witness ==
    /\ pc = "join_by_field"
    /\ xref_explode # <<>>
    /\ precincts # <<>>

----------------------------------------------------------------------------
(* The count update_precincts reports. *)

\* The records whose VotePrec was null when update_precincts was called:
\* those the join transferred no value to.
NullBeforeFill ==
    {i \in 1..Len(precincts) : JoinedValue(xref_explode, precincts[i].Precinct) = None}

\* The records whose VotePrec update_precincts has changed.
ChangedByFill == {i \in NullBeforeFill : precincts[i].VotePrec # None}

\* The records that have neither a VotePrec nor a Precinct to take.
NullPrecinct == {i \in NullBeforeFill : precincts[i].Precinct = None}

(* C18, as claimed.  The count update_precincts reports is the number of   *)
(* records whose VotePrec was null immediately before it ran, and also the *)
(* number of records whose VotePrec it changed.                            *)
C18_CountIsNullAndChanged ==
    FillDone =>
        /\ update_count = Cardinality(NullBeforeFill)
        /\ update_count = Cardinality(ChangedByFill)

(* C18, amended.  The count update_precincts reports is the number of      *)
(* records whose VotePrec was null immediately before it ran, each of      *)
(* which it wrote; the records whose VotePrec it changed are those of them *)
(* that have a Precinct, so the two numbers differ by the number of        *)
(* records with a null Precinct.  While the cursor runs the count is the   *)
(* number of such records it has passed.                                   *)
C18_CountIsNullBeforeFill ==
    /\ pc = "update_precincts" =>
           update_count = Cardinality({i \in NullBeforeFill : i <= update_cur})
    /\ FillDone =>
           /\ update_count = Cardinality(NullBeforeFill)
           /\ update_count = Cardinality(ChangedByFill) + Cardinality(NullPrecinct)

\* update_precincts has returned from a dataset in which the join had
\* matched one record and left two without a VotePrec.
C18_Witness ==
    /\ FillDone
    /\ update_count = 2
    /\ \E i \in 1..Len(precincts) : i \notin NullBeforeFill

----------------------------------------------------------------------------
(* C20.  update_precincts changes nothing except the VotePrec of records   *)
(* whose VotePrec is null: on every step taken inside it the records stay  *)
(* as many, each keeps its Precinct, each that has a VotePrec keeps it,    *)
(* and the cross-reference, the exploded table and the output stay as they *)
(* were.                                                                   *)
C20_FillFrame ==
    [][pc = "update_precincts" =>
          /\ Len(precincts') = Len(precincts)
          /\ \A i \in 1..Len(precincts) :
                /\ precincts'[i].Precinct = precincts[i].Precinct
                /\ precincts[i].VotePrec # None =>
                       precincts'[i].VotePrec = precincts[i].VotePrec
          /\ xref' = xref
          /\ xref_explode' = xref_explode
          /\ voting_precincts' = voting_precincts]_vars

\* update_precincts has returned: it has filled one record, and another
\* holds the voting precinct the join gave it, which is not its Precinct.
C20_Witness ==
    /\ FillDone
    /\ update_count >= 1
    /\ \E i \in 1..Len(precincts) :
          /\ i \notin NullBeforeFill
          /\ precincts[i].VotePrec # precincts[i].Precinct
          /\ precincts[i].VotePrec = JoinedValue(xref_explode, precincts[i].Precinct)

----------------------------------------------------------------------------
\* The member records whose Precinct is a key of the exploded table.
MappedRecords ==
    {i \in 1..Len(precincts) : JoinMatches(xref_explode, precincts[i].Precinct) # {}}

(* C21.  In a run that completes, the rows update_precincts has patched    *)
(* and the member records whose key is in the exploded table are together  *)
(* as many as the member records.                                          *)
C21_PatchedPlusMapped ==
    FillDone => update_count + Cardinality(MappedRecords) = Len(precincts)

\* The run is done on two member records: one was mapped by the exploded
\* table, the other patched.
C21_Witness ==
    /\ pc = "done"
    /\ Len(precincts) = 2
    /\ update_count = 1
    /\ Cardinality(MappedRecords) = 1

----------------------------------------------------------------------------
(* copy_field(from_fc, from_key_name, from_field_name, to_fc, to_key_name, *)
(* to_field_name) of the public-works script: a SearchCursor loop that     *)
(* fills from_values_dict, then an UpdateCursor loop over the target.      *)

\* The voting-precinct pipeline is not run.
PrecinctsNotRun ==
    /\ xref = <<>>
    /\ precincts = <<>>
    /\ xref_explode = <<>>
    /\ precincts_1to1 = <<>>
    /\ search_cur = 0
    /\ insert_cur = 0
    /\ update_cur = 0
    /\ update_count = 0
    /\ voting_precincts = {}
    /\ exit_code = 0
    /\ raised = NoException
    /\ update_runs = 0
    /\ pc = "not_run"

\* Values of a key field (SVG_NUM, PLG_NUM, POLE_NUM); None is a null key.
FieldKeys == {<<"1">>, <<"1", "1">>, None}

\* Values of the copied field (road names).
FieldValues == {<<"1">>, <<"1", "1">>}

FieldRows == [key : FieldKeys, val : FieldValues]

FromTables == UNION {[1..n -> FieldRows] : n \in 0..MaxFrom}

ToTables == UNION {[1..n -> FieldRows] : n \in 0..MaxTo}

InitCopyField ==
    /\ PrecinctsNotRun
    /\ SanitationNotRun
    /\ from_fc \in FromTables
    /\ to_fc \in ToTables
    /\ from_values_dict = <<>>
    /\ from_cur = 0
    /\ upd_cur = 0
    /\ copy_pc = "search"

\* for k, v in search_cur: from_values_dict[k] = v
CopyFieldSearchRow ==
    /\ copy_pc = "search"
    /\ from_cur < Len(from_fc)
    /\ LET k == from_fc[from_cur + 1].key
           v == from_fc[from_cur + 1].val
       IN  from_values_dict' = DictSet(from_values_dict, k, v)
    /\ from_cur' = from_cur + 1
    /\ UNCHANGED <<from_fc, to_fc, upd_cur, copy_pc>>
    /\ UNCHANGED <<xref, precincts, xref_explode, precincts_1to1, search_cur,
                   insert_cur, update_cur, update_count, voting_precincts,
                   exit_code, raised, update_runs, pc, sanitation_vars>>

\* The SearchCursor is exhausted: the UpdateCursor is opened.
CopyFieldSearchEnd ==
    /\ copy_pc = "search"
    /\ from_cur = Len(from_fc)
    /\ copy_pc' = "update"
    /\ UNCHANGED <<from_fc, to_fc, from_values_dict, from_cur, upd_cur>>
    /\ UNCHANGED <<xref, precincts, xref_explode, precincts_1to1, search_cur,
                   insert_cur, update_cur, update_count, voting_precincts,
                   exit_code, raised, update_runs, pc, sanitation_vars>>

\* to_row[1] = from_values_dict.get(this_key): a key that is not in the
\* dictionary gives None.
CopiedValueOrNone(d, to_row) ==
    IF DictHas(d, to_row.key) THEN DictGet(d, to_row.key) ELSE None

\* if this_key in from_values_dict.keys():
\*     to_row[1] = from_values_dict[this_key]
CopiedValue(d, to_row) ==
    IF DictHas(d, to_row.key) THEN DictGet(d, to_row.key) ELSE to_row.val

\* One iteration of "for to_row in upd_cur", with its updateRow.
CopyFieldUpdateRow ==
    /\ copy_pc = "update"
    /\ upd_cur < Len(to_fc)
    /\ to_fc' = [to_fc EXCEPT ![upd_cur + 1].val =
                     CopiedValue(from_values_dict, to_fc[upd_cur + 1])]
    /\ upd_cur' = upd_cur + 1
    /\ UNCHANGED <<from_fc, from_values_dict, from_cur, copy_pc>>
    /\ UNCHANGED <<xref, precincts, xref_explode, precincts_1to1, search_cur,
                   insert_cur, update_cur, update_count, voting_precincts,
                   exit_code, raised, update_runs, pc, sanitation_vars>>

\* The UpdateCursor is exhausted: copy_field returns.
CopyFieldReturn ==
    /\ copy_pc = "update"
    /\ upd_cur = Len(to_fc)
    /\ copy_pc' = "return"
    /\ UNCHANGED <<from_fc, to_fc, from_values_dict, from_cur, upd_cur>>
    /\ UNCHANGED <<xref, precincts, xref_explode, precincts_1to1, search_cur,
                   insert_cur, update_cur, update_count, voting_precincts,
                   exit_code, raised, update_runs, pc, sanitation_vars>>

NextCopyField ==
    \/ CopyFieldSearchRow
    \/ CopyFieldSearchEnd
    \/ CopyFieldUpdateRow
    \/ CopyFieldReturn

SpecCopyField == InitCopyField /\ [][NextCopyField]_vars

\* The rows of the source feature class that carry key k.
SourceRows(k) == {j \in 1..Len(from_fc) : from_fc[j].key = k}

\* The last of them, in cursor order.
LastSourceRow(k) == CHOOSE j \in SourceRows(k) : \A h \in SourceRows(k) : h <= j

(* C22.  copy_field copies values only where keys match.  No step changes  *)
(* the number of target rows, the key of any, or the value of a row whose  *)
(* key is the key of no source row; and when copy_field returns, every     *)
(* target row whose key is the key of some source row holds the value of   *)
(* the last source row with that key.                                      *)
C22_CopyWhereKeysMatch ==
    [][/\ Len(to_fc') = Len(to_fc)
       /\ \A i \in 1..Len(to_fc) :
             /\ to_fc'[i].key = to_fc[i].key
             /\ SourceRows(to_fc[i].key) = {} => to_fc'[i].val = to_fc[i].val
       /\ copy_pc' = "return" =>
             \A i \in 1..Len(to_fc) :
                 SourceRows(to_fc[i].key) # {} =>
                     to_fc'[i].val = from_fc[LastSourceRow(to_fc[i].key)].val]_vars

\* copy_field has returned: one target row has the key of two source rows
\* with different values, another the key of none.
C22_Witness ==
    /\ copy_pc = "return"
    /\ \E i, j \in 1..Len(to_fc) :
          /\ \E h, l \in SourceRows(to_fc[i].key) : from_fc[h].val # from_fc[l].val
          /\ SourceRows(to_fc[j].key) = {}

----------------------------------------------------------------------------
(* santa_cruz_sanitation.py: the backup copy, the new directory, and the   *)
(* loop that moves the files the index feature class refers to.  A file is *)
(* a record [name, data]; a directory is the set of its files, no two with *)
(* the same name.                                                          *)

\* A directory that does not exist: a set that is no set of files.
NoDir == {[name |-> None, data |-> "NoDir"]}

\* File names, as texts; None is a null FileName field.
FileNames == {<<"1">>, <<"1", "1">>}

\* File contents.
FileData == {"x", "y"}

Files == [name : FileNames, data : FileData]

Dirs == {d \in SUBSET Files : \A f, g \in d : f.name = g.name => f = g}

IndexTables == UNION {[1..n -> FileNames \cup {None}] : n \in 0..MaxIndex}

\* The files of a directory; none when it does not exist.
FilesIn(dir) == IF dir = NoDir THEN {} ELSE dir

NamesIn(dir) == {f.name : f \in FilesIn(dir)}

\* Path(dir, name).is_file()
IsFile(dir, name) == name \in NamesIn(dir)

\* old_dir exists (the assertion of line 22); the save and the new
\* directory may be there from an earlier run.
InitSanitation ==
    /\ PrecinctsNotRun
    /\ CopyFieldNotRun
    /\ old_dir \in Dirs
    /\ new_dir \in Dirs \cup {NoDir}
    /\ save_dir \in Dirs \cup {NoDir}
    /\ fc \in IndexTables
    /\ cursor = 0
    /\ moved = <<>>
    /\ files_not_found = <<>>
    /\ duplicate_file_refs = <<>>
    /\ step = "backup"

\* The backup is skipped.
NoBackup ==
    /\ step = "backup"
    /\ step' = "mkdir"
    /\ UNCHANGED <<old_dir, new_dir, save_dir, fc, cursor, moved, files_not_found,
                   duplicate_file_refs>>
    /\ UNCHANGED <<xref, precincts, xref_explode, precincts_1to1, search_cur,
                   insert_cur, update_cur, update_count, voting_precincts,
                   exit_code, raised, update_runs, pc, copy_field_vars>>

\* if not save_dir.is_dir(): copytree(old_dir, save_dir)
Backup ==
    /\ step = "backup"
    /\ save_dir' = IF save_dir = NoDir THEN old_dir ELSE save_dir
    /\ step' = "mkdir"
    /\ UNCHANGED <<old_dir, new_dir, fc, cursor, moved, files_not_found,
                   duplicate_file_refs>>
    /\ UNCHANGED <<xref, precincts, xref_explode, precincts_1to1, search_cur,
                   insert_cur, update_cur, update_count, voting_precincts,
                   exit_code, raised, update_runs, pc, copy_field_vars>>

\* new_dir.mkdir(parents=True, exist_ok=True); the checks of the
\* geodatabase pass and the cursor is opened.
MakeNewDir ==
    /\ step = "mkdir"
    /\ new_dir' = FilesIn(new_dir)
    /\ step' = "loop"
    /\ UNCHANGED <<old_dir, save_dir, fc, cursor, moved, files_not_found,
                   duplicate_file_refs>>
    /\ UNCHANGED <<xref, precincts, xref_explode, precincts_1to1, search_cur,
                   insert_cur, update_cur, update_count, voting_precincts,
                   exit_code, raised, update_runs, pc, copy_field_vars>>

\* Path(old_dir, curr_file) raises TypeError on None.
PathRaises(curr_file) == curr_file = None

\* if old_pdf_file.is_file(): the file is moved whatever the new
\* directory holds.
MoveWhenInOld(curr_file) == IsFile(old_dir, curr_file)

\* if old_pdf_file.is_file() and not new_pdf_file.is_file():
MoveCondition(curr_file) ==
    IsFile(old_dir, curr_file) /\ ~IsFile(new_dir, curr_file)

\* elif not old_pdf_file.is_file(): every file that is not in the old
\* directory counts as moved already.
DuplicateWhenNotInOld(curr_file) == ~IsFile(old_dir, curr_file)

\* elif new_pdf_file.is_file():
DuplicateCondition(curr_file) == IsFile(new_dir, curr_file)

\* The file of the old directory that old_pdf_file names.
OldFile(curr_file) == CHOOSE f \in old_dir : f.name = curr_file

\* old_pdf_file.unlink(): the file is removed and the new directory gets
\* nothing.
NewDirAfterUnlink(f) == new_dir

\* The new directory after old_pdf_file.rename(new_pdf_file): the file is
\* there under its name, in place of any file of that name.
NewDirAfterRename(f) == {g \in new_dir : g.name # f.name} \cup {f}

\* An iteration that takes the first branch: the file is moved.
MoveFile ==
    /\ step = "loop"
    /\ cursor < Len(fc)
    /\ LET curr_file == fc[cursor + 1]
       IN  /\ ~PathRaises(curr_file)
           /\ MoveCondition(curr_file)
           /\ old_dir' = old_dir \ {OldFile(curr_file)}
           /\ new_dir' = NewDirAfterRename(OldFile(curr_file))
           /\ moved' = Append(moved, curr_file)
    /\ cursor' = cursor + 1
    /\ UNCHANGED <<save_dir, fc, files_not_found, duplicate_file_refs, step>>
    /\ UNCHANGED <<xref, precincts, xref_explode, precincts_1to1, search_cur,
                   insert_cur, update_cur, update_count, voting_precincts,
                   exit_code, raised, update_runs, pc, copy_field_vars>>

\* An iteration that takes the second branch: a duplicate reference.
DuplicateReference ==
    /\ step = "loop"
    /\ cursor < Len(fc)
    /\ LET curr_file == fc[cursor + 1]
       IN  /\ ~PathRaises(curr_file)
           /\ ~MoveCondition(curr_file)
           /\ DuplicateCondition(curr_file)
           /\ duplicate_file_refs' = Append(duplicate_file_refs, curr_file)
    /\ cursor' = cursor + 1
    /\ UNCHANGED <<old_dir, new_dir, save_dir, fc, moved, files_not_found, step>>
    /\ UNCHANGED <<xref, precincts, xref_explode, precincts_1to1, search_cur,
                   insert_cur, update_cur, update_count, voting_precincts,
                   exit_code, raised, update_runs, pc, copy_field_vars>>

\* An iteration that takes the third branch: the file is not found.
FileNotFound ==
    /\ step = "loop"
    /\ cursor < Len(fc)
    /\ LET curr_file == fc[cursor + 1]
       IN  /\ ~PathRaises(curr_file)
           /\ ~MoveCondition(curr_file)
           /\ ~DuplicateCondition(curr_file)
           /\ files_not_found' = Append(files_not_found, curr_file)
    /\ cursor' = cursor + 1
    /\ UNCHANGED <<old_dir, new_dir, save_dir, fc, moved, duplicate_file_refs, step>>
    /\ UNCHANGED <<xref, precincts, xref_explode, precincts_1to1, search_cur,
                   insert_cur, update_cur, update_count, voting_precincts,
                   exit_code, raised, update_runs, pc, copy_field_vars>>

\* An iteration on a record whose FileName is null: Path raises, no
\* handler is in place, the script ends.
NullFileName ==
    /\ step = "loop"
    /\ cursor < Len(fc)
    /\ PathRaises(fc[cursor + 1])
    /\ step' = "exit"
    /\ UNCHANGED <<old_dir, new_dir, save_dir, fc, cursor, moved, files_not_found,
                   duplicate_file_refs>>
    /\ UNCHANGED <<xref, precincts, xref_explode, precincts_1to1, search_cur,
                   insert_cur, update_cur, update_count, voting_precincts,
                   exit_code, raised, update_runs, pc, copy_field_vars>>

\* The cursor is exhausted: the reports are printed.
LoopEnd ==
    /\ step = "loop"
    /\ cursor = Len(fc)
    /\ step' = "report"
    /\ UNCHANGED <<old_dir, new_dir, save_dir, fc, cursor, moved, files_not_found,
                   duplicate_file_refs>>
    /\ UNCHANGED <<xref, precincts, xref_explode, precincts_1to1, search_cur,
                   insert_cur, update_cur, update_count, voting_precincts,
                   exit_code, raised, update_runs, pc, copy_field_vars>>

NextSanitation ==
    \/ Backup
    \/ MakeNewDir
    \/ MoveFile
    \/ DuplicateReference
    \/ FileNotFound
    \/ NullFileName
    \/ LoopEnd

SpecSanitation == InitSanitation /\ [][NextSanitation]_vars

\* The file names the index feature class refers to.
Referenced == {fc[i] : i \in 1..Len(fc)} \ {None}

(* C23.  A file is moved only when it exists in the old directory and no   *)
(* file of its name exists in the new directory at that moment: a step     *)
(* that changes the files of either directory is an iteration of the loop  *)
(* that takes the file the current record names out of the old directory   *)
(* and adds it to the new one, which held no file of that name; and every  *)
(* file of the new directory stays in it, unchanged, on every step.        *)
C23_MoveOnlyWhenFree ==
    [][/\ FilesIn(new_dir) \subseteq FilesIn(new_dir')
       /\ (old_dir' # old_dir \/ FilesIn(new_dir') # FilesIn(new_dir)) =>
             /\ step = "loop"
             /\ cursor < Len(fc)
             /\ \E f \in old_dir :
                   /\ f.name = fc[cursor + 1]
                   /\ f.name \notin NamesIn(new_dir)
                   /\ old_dir' = old_dir \ {f}
                   /\ new_dir' = new_dir \cup {f}]_vars

\* The loop has ended: it has moved a file, and it has left another in the
\* old directory because the new directory holds a different file of that
\* name.
C23_Witness ==
    /\ step = "report"
    /\ moved # <<>>
    /\ \E f \in old_dir, g \in new_dir :
          /\ f.name = g.name
          /\ f # g
          /\ f.name \in Referenced

\* The file names of the "moved" lines.
MovedNames == {moved[i] : i \in 1..Len(moved)}

\* A step that appends a name to duplicate_file_refs.
DuplicateAppended ==
    /\ Len(duplicate_file_refs') = Len(duplicate_file_refs) + 1
    /\ SubSeq(duplicate_file_refs', 1, Len(duplicate_file_refs)) = duplicate_file_refs

(* C24, as claimed.  A file name is added to duplicate_file_refs only when *)
(* an earlier record of the same run has moved that file to the new        *)
(* directory.                                                              *)
C24_DuplicateAfterMove ==
    [][duplicate_file_refs' # duplicate_file_refs =>
          /\ DuplicateAppended
          /\ duplicate_file_refs'[Len(duplicate_file_refs')] \in MovedNames]_vars

(* C24, amended.  A file name is added to duplicate_file_refs only when    *)
(* the new directory holds a file of that name as the record is processed: *)
(* one an earlier record of the same run has moved there, or one that was  *)
(* there before the loop began.  The name is that of the current record,   *)
(* and the list only grows at its end.                                     *)
C24_DuplicateWhenInNewDir ==
    [][duplicate_file_refs' # duplicate_file_refs =>
          /\ DuplicateAppended
          /\ step = "loop"
          /\ cursor < Len(fc)
          /\ duplicate_file_refs'[Len(duplicate_file_refs')] = fc[cursor + 1]
          /\ fc[cursor + 1] \in NamesIn(new_dir)]_vars

\* The loop has ended with two duplicate references: one to a file an
\* earlier record had moved, one to a file no record has moved.
C24_Witness ==
    /\ step = "report"
    /\ \E i, j \in 1..Len(duplicate_file_refs) :
          /\ duplicate_file_refs[i] \in MovedNames
          /\ duplicate_file_refs[j] \notin MovedNames

\* The record at the cursor gets exactly one of the three outcomes: its
\* name goes to the end of one list, the other two stay, the cursor
\* advances.
OneOutcome ==
    LET curr_file == fc[cursor + 1]
    IN  /\ cursor' = cursor + 1
        /\ \/ /\ moved' = Append(moved, curr_file)
              /\ UNCHANGED <<duplicate_file_refs, files_not_found>>
           \/ /\ duplicate_file_refs' = Append(duplicate_file_refs, curr_file)
              /\ UNCHANGED <<moved, files_not_found>>
           \/ /\ files_not_found' = Append(files_not_found, curr_file)
              /\ curr_file \notin NamesIn(old_dir)
              /\ curr_file \notin NamesIn(new_dir)
              /\ UNCHANGED <<moved, duplicate_file_refs>>

\* The outcomes counted so far.
Outcomes == Len(moved) + Len(duplicate_file_refs) + Len(files_not_found)

(* C25, as claimed.  Every index record produces exactly one of three      *)
(* outcomes (moved, duplicate reference, not found), a reference being     *)
(* reported not found only if the file is absent from both directories     *)
(* when the record is processed; so the outcomes are as many as the        *)
(* records passed, and as many as the index records after the loop.        *)
C25_OneOutcomePerRecord ==
    [][/\ (step = "loop" /\ cursor < Len(fc)) => OneOutcome
       /\ Outcomes' = cursor'
       /\ step' = "report" => Outcomes' = Len(fc)]_vars

\* A step that moves the first file out of the old directory.
FirstMove == moved = <<>> /\ moved' # <<>>

(* C26, as claimed.  A backup is made before anything is moved: at the     *)
(* moment the first file is moved out of the old directory, the save       *)
(* directory exists and holds a copy of every file that is in the old      *)
(* directory at that moment.                                               *)
C26_BackupBeforeFirstMove ==
    [][FirstMove => (save_dir # NoDir /\ old_dir \subseteq save_dir)]_vars

(* C26, amended.  The save directory exists before anything is moved, and  *)
(* it is a backup only when this run makes it: a save directory that does  *)
(* not exist becomes a copy of the old directory, an existing one is never *)
(* changed, and the old directory only loses files, in the loop and with   *)
(* the save directory in place.  So a save directory made by this run      *)
(* holds every file of the old directory at the first move, and one left   *)
(* by an earlier run holds what it held.                                   *)
C26_BackupUnlessSaveDirExists ==
    [][/\ (save_dir = NoDir /\ save_dir' # save_dir) =>
             (step = "backup" /\ save_dir' = old_dir /\ old_dir' = old_dir)
       /\ save_dir # NoDir => save_dir' = save_dir
       /\ step = "backup" => save_dir' # NoDir
       /\ old_dir' \subseteq old_dir
       /\ old_dir' # old_dir => (step = "loop" /\ save_dir # NoDir)]_vars

\* The loop has moved a file of an old directory that the save directory,
\* left by an earlier run, has no copy of.
C26_Witness ==
    /\ step = "report"
    /\ moved # <<>>
    /\ \E f \in new_dir : f.name \in MovedNames /\ f \notin save_dir

\* A step neither loses nor creates a file or a file name, and leaves in
\* the old directory every file no index record refers to.
FilesConserved ==
    /\ NamesIn(old_dir') \cup NamesIn(new_dir') = NamesIn(old_dir) \cup NamesIn(new_dir)
    /\ FilesIn(old_dir') \cup FilesIn(new_dir') = FilesIn(old_dir) \cup FilesIn(new_dir)
    /\ old_dir' \subseteq old_dir
    /\ \A f \in old_dir : f.name \notin Referenced => f \in old_dir'

(* C27, as claimed.  The loop neither loses nor creates files: the file    *)
(* names of the two directories together stay the same, every file no      *)
(* index record refers to stays in the old directory, and when the loop    *)
(* has ended every referenced file of the old directory is in the new one  *)
(* (files leave the old directory only for the new one, so a referenced    *)
(* file that was in the old directory at the start and is not in the new   *)
(* one at the end is still in the old one).                                *)
C27_ReferencedFilesMoved ==
    [][/\ FilesConserved
       /\ step' = "report" =>
             \A f \in old_dir' : f.name \in Referenced => f \in new_dir']_vars

(* C27, amended.  The loop neither loses nor creates files, every file no  *)
(* index record refers to stays in the old directory, and when the loop    *)
(* has ended every referenced file that was in the old directory at the    *)
(* start is in the new directory, unless the new directory held a file of  *)
(* that name before the loop: then the file is still in the old            *)
(* directory, the other file is still in the new one, and the name is in   *)
(* duplicate_file_refs.                                                    *)
C27_ReferencedFilesMovedUnlessNameTaken ==
    [][/\ FilesConserved
       /\ step' = "report" =>
             \A f \in old_dir' :
                 f.name \in Referenced =>
                     /\ \E g \in new_dir' : g.name = f.name
                     /\ f.name \notin {moved'[i] : i \in 1..Len(moved')}
                     /\ f.name \in {duplicate_file_refs'[i] :
                                       i \in 1..Len(duplicate_file_refs')}]_vars

\* The loop has ended: a referenced file has been moved to the new
\* directory, and a file no record refers to is in the old one.
C27_Witness ==
    /\ step = "report"
    /\ \E g \in new_dir : g.name \in MovedNames
    /\ \E f \in old_dir : f.name \notin Referenced

====
